---- MODULE Spec2Model ----
(***************************************************************************)
(* The case hand-off protocol of main.py: submit_case, claim_case,         *)
(* confirm_case, update_ai_result and abort_case, run by several request   *)
(* handlers at once over the storage/ directories.  A step of the model is *)
(* one file-system call of a handler (glob, rename, open, read, write,     *)
(* remove), so that every interleaving of the handlers' file-system calls  *)
(* is a behaviour of Spec.                                                 *)
(***************************************************************************)
EXTENDS Integers, Sequences, FiniteSets, TLC

\* ---- bounds of the model ----
NumIds == 2       \* cases that can be submitted
NumProcs == 2     \* request handlers that can run at the same time
MaxNow == 1       \* last value of the wall clock (seconds)
MaxCalls == 4     \* requests served in one behaviour

\* ---- program constants ----
MAX_CLAIM_IMAGE_BYTES == 8000000
ClaimBudget == 5
INTERNAL_API_KEY == "configured-key"

\* the X-API-KEY header of a request: the configured key, another value, or
\* no header at all
NoKey == "no header"
Keys == {INTERNAL_API_KEY, "other-key", NoKey}

Ids == 1..NumIds
Procs == 1..NumProcs

\* sizes of the uploaded images: one below and one above the claim ceiling
\* (submit_case swallows its own 413, so any size reaches uploads)
ImageSizes == {10000, 8000001}

\* the personal fields a form can carry
PersonalInputs ==
    {[name |-> "Alice", phone |-> "555", line_id |-> "alice1"]}

\* the results an internal worker can post: <<ai_level, ai_prob (percent), ai_suggestion>>
AiInputs == {<<1, 50, "mild">>, <<2, 87, "severe">>}

\* uuid4().hex of submit_case: a token of its own for every case
ReceiptOf(id) == 100 + id

Receipts == {ReceiptOf(i) : i \in Ids}

\* absent keys and None values of the JSON documents
NullInt == -1
NullStr == "null"
NoBlob == -1

\* ---- the JSON documents on disk ----
\* kind: "nofile" (no such path), "empty" (opened with "w", nothing written
\* yet), "corrupt" (bytes of two overlapping writers), "json" (a document)
BlankRec ==
    [kind |-> "nofile", id |-> 0, receipt |-> 0, created_at |-> NullInt,
     name |-> NullStr, phone |-> NullStr, line_id |-> NullStr,
     image_filename |-> 0, status |-> NullStr]

NoRec == BlankRec

EmptyRec == [BlankRec EXCEPT !.kind = "empty"]

BlankStub ==
    [kind |-> "nofile", id |-> 0, receipt |-> 0, created_at |-> NullInt,
     status |-> NullStr, ai_level |-> NullInt, ai_prob |-> NullInt,
     ai_suggestion |-> NullStr, note |-> NullStr, processing_at |-> NullInt,
     error_at |-> NullInt, updated_at |-> NullInt]

NoStub == BlankStub

EmptyStub == [BlankStub EXCEPT !.kind = "empty"]

CorruptStub == [BlankStub EXCEPT !.kind = "corrupt"]

\* record of submit_case
NewRecord(id, t, pi) ==
    [kind |-> "json", id |-> id, receipt |-> ReceiptOf(id), created_at |-> t,
     name |-> pi.name, phone |-> pi.phone, line_id |-> pi.line_id,
     image_filename |-> id, status |-> "pending"]

\* stub of submit_case
NewStub(id, t) ==
    [kind |-> "json", id |-> id, receipt |-> ReceiptOf(id), created_at |-> t,
     status |-> "pending", ai_level |-> NullInt, ai_prob |-> NullInt,
     ai_suggestion |-> NullStr, note |-> NullStr, processing_at |-> NullInt,
     error_at |-> NullInt, updated_at |-> NullInt]

\* the keyword arguments of one update_stub_status call
Fields(status, note, tsField) ==
    [status |-> status, note |-> note, tsField |-> tsField]

NoFields == Fields(NullStr, NullStr, NullStr)

\* stub.update(fields): a note of NullStr is a call that passes no note
StubUpdate(stub, f, t) ==
    [stub EXCEPT
        !.status = f.status,
        !.note = IF f.note = NullStr THEN @ ELSE f.note,
        !.processing_at = IF f.tsField = "processing_at" THEN t ELSE @,
        !.error_at = IF f.tsField = "error_at" THEN t ELSE @,
        !.updated_at = IF f.tsField = "updated_at" THEN t ELSE @]

\* stub.update({...}) of update_ai_result
AiUpdate(stub, ai, t) ==
    [stub EXCEPT
        !.ai_level = ai[1], !.ai_prob = ai[2], !.ai_suggestion = ai[3],
        !.status = "done", !.updated_at = t]

\* os.rename(src/id.json, dst/id.json): fails when the source is gone,
\* otherwise the one file leaves src and is in dst
os_rename_copying(src, dst, id) ==
    IF src[id].kind = "nofile"
    THEN [ok |-> FALSE, src |-> src, dst |-> dst]
    ELSE [ok |-> TRUE, src |-> src, dst |-> [dst EXCEPT ![id] = src[id]]]

os_rename(src, dst, id) ==
    IF src[id].kind = "nofile"
    THEN [ok |-> FALSE, src |-> src, dst |-> dst]
    ELSE [ok |-> TRUE, src |-> [src EXCEPT ![id] = NoRec],
          dst |-> [dst EXCEPT ![id] = src[id]]]

\* f.write through a descriptor opened before the file was renamed: the
\* bytes land in the file wherever it is now
WriteThrough(dir, id, doc) ==
    IF dir[id].kind = "nofile" THEN dir ELSE [dir EXCEPT ![id] = doc]

\* the results of the handlers: the JSON body of a 200, or an HTTPException
Result(status, http, message, case_id) ==
    [status |-> status, http |-> http, message |-> message, case_id |-> case_id]

NoResult == Result(NullStr, 0, NullStr, 0)

\* the result fields of a stub, and those of a stub without a result
AiOf(stub) == <<stub.ai_level, stub.ai_prob, stub.ai_suggestion>>

NoAi == <<NullInt, NullInt, NullStr>>

\* the statuses the life cycle of a stub ends in
TerminalStatuses == {"data_purged", "error", "done"}

\* ---- state ----
VARIABLES
    pending,      \* storage/pending:    Ids -> record document
    processing,   \* storage/processing: Ids -> record document
    error,        \* storage/error:      Ids -> record document
    uploads,      \* storage/uploads:    Ids -> size of the image, or NoBlob
    stubs,        \* storage/stubs:      Ids -> stub document
    mtimeOrder,   \* the record files, oldest modification time first
    now,          \* datetime.now(), in seconds
    submitted,    \* number of submit_case calls so far (the ids in use)
    calls,        \* number of requests taken so far
    pc,           \* Procs -> the file-system call the handler makes next
    loc,          \* Procs -> the handler's local variables
    raced,        \* two calls have been in flight at the same time
    overlap,      \* the calls now in flight have overlapped
    okCount,      \* Ids -> claim_case calls that returned 'ok' with the case (0, 1, 2 = more)
    aborted,      \* Ids -> an abort_case call has moved the record back to pending
    purged,       \* Ids -> a confirm_case call has removed the processing record
    purgeReturned, \* Ids -> a confirm_case call has returned 'Data purged'
    revealed,     \* Ids -> a claim_case response has carried the receipt of the case
    quarantined,  \* Ids -> a claim_case call that no call overlapped has reported the image missing
    resultReturned, \* Ids -> an update_ai_result call for the case has returned 'ok'
    arrivedBefore, \* pairs <<e, c>>: the submit_case call of e returned before that of c began
    terminal,     \* Ids -> the stub has held the status data_purged, error or done
    aiFirst       \* Ids -> the first non-null result fields the stub has held

vars ==
    <<pending, processing, error, uploads, stubs, mtimeOrder, now, submitted,
      calls, pc, loc, raced, overlap, okCount, aborted, purged, purgeReturned,
      revealed, quarantined, resultReturned, arrivedBefore, terminal, aiFirst>>

files == <<pending, processing, error, uploads, stubs, mtimeOrder>>

history ==
    <<okCount, aborted, purged, purgeReturned, revealed, quarantined, resultReturned,
      arrivedBefore>>

stubHistory == <<terminal, aiFirst>>

\* the local variables of a handler
IdleLoc ==
    [op |-> "none", key |-> NoKey, id |-> 0, receipt |-> 0, ai |-> <<0, 0, NullStr>>,
     created_at |-> NullInt,
     globbed |-> {}, pending_files |-> <<>>, tries |-> 0, skipped |-> {},
     rec |-> NoRec, fields |-> NoFields, newStub |-> NoStub,
     after |-> "ret", result |-> NoResult, case |-> NoStub,
     sawRec |-> NoRec, sawImage |-> NoBlob, sawStub |-> NoStub]

Init ==
    /\ pending = [i \in Ids |-> NoRec]
    /\ processing = [i \in Ids |-> NoRec]
    /\ error = [i \in Ids |-> NoRec]
    /\ uploads = [i \in Ids |-> NoBlob]
    /\ stubs = [i \in Ids |-> NoStub]
    /\ mtimeOrder = <<>>
    /\ now = 0
    /\ submitted = 0
    /\ calls = 0
    /\ pc = [p \in Procs |-> "idle"]
    /\ loc = [p \in Procs |-> IdleLoc]
    /\ raced = FALSE
    /\ overlap = FALSE
    /\ okCount = [i \in Ids |-> 0]
    /\ aborted = [i \in Ids |-> FALSE]
    /\ purged = [i \in Ids |-> FALSE]
    /\ purgeReturned = [i \in Ids |-> FALSE]
    /\ revealed = [i \in Ids |-> FALSE]
    /\ quarantined = [i \in Ids |-> FALSE]
    /\ resultReturned = [i \in Ids |-> FALSE]
    /\ arrivedBefore = {}
    /\ terminal = [i \in Ids |-> FALSE]
    /\ aiFirst = [i \in Ids |-> NoAi]

\* ---- the handlers ----
\* what a request for case l.id finds when it arrives (kept for the
\* properties; no handler reads it)
Seen(l) ==
    [l EXCEPT !.sawRec = processing[l.id],
              !.sawImage = uploads[l.id],
              !.sawStub = stubs[l.id]]

\* A request is taken by the first free handler (the handlers are alike).
Free(p) ==
    /\ pc[p] = "idle"
    /\ \A q \in Procs : q < p => pc[q] # "idle"

Busy == \E q \in Procs : pc[q] # "idle"

\* a call begins: it overlaps the calls in flight
Begin(p) ==
    /\ Free(p)
    /\ calls < MaxCalls
    /\ calls' = calls + 1
    /\ raced' = (raced \/ Busy)
    /\ overlap' = (overlap \/ Busy)

Goto(p, label) == pc' = [pc EXCEPT ![p] = label]

\* the handler leaves with `r`: return r, or raise HTTPException
Leave(p, r) ==
    /\ pc' = [pc EXCEPT ![p] = "ret"]
    /\ loc' = [loc EXCEPT ![p].result = r]

\* ---------------------------------------------------------------------
\* verify_internal_key, the dependency of the four internal routes
\* ---------------------------------------------------------------------
\* x_api_key: str = Header(..., alias="X-API-KEY") is a required parameter:
\* a request without the header fails the validation of the request (422)
\* and the body of the dependency is not run; with the header, the body
\* raises 401 unless the value is the configured key
verify_internal_key(x_api_key) ==
    IF x_api_key = NoKey THEN Result("exception", 422, "Field required", 0)
    ELSE IF x_api_key # INTERNAL_API_KEY THEN Result("exception", 401, "Unauthorized", 0)
    ELSE NoResult

\* the dependency has raised: the route's function is not called
Rejected(p, op, key) ==
    /\ Begin(p)
    /\ loc' = [loc EXCEPT ![p] =
                 [IdleLoc EXCEPT !.op = op, !.key = key,
                                 !.result = verify_internal_key(key)]]
    /\ Goto(p, "ret")
    /\ UNCHANGED <<files, now, submitted, history, stubHistory>>

\* ---------------------------------------------------------------------
\* update_stub_status(case_id, **fields) and save_json(stub_path, stub)
\* ---------------------------------------------------------------------
\* the bytes a closing save_json leaves in a stub file that `cur` is in now:
\* the file was truncated by this writer's open; if another writer's bytes
\* are in it by now, the shorter document leaves the tail of the longer one
WriteOutcomes(cur, doc) ==
    IF cur.kind = "empty" \/ cur = doc THEN {doc} ELSE {doc, CorruptStub}

\* os.path.exists(sp), load_json(sp), stub.update(fields)
StubLoad(p) ==
    /\ pc[p] = "stub_load"
    /\ LET id == loc[p].id
           stub == stubs[id]
       IN IF stub.kind = "json"
          THEN /\ loc' = [loc EXCEPT ![p].newStub = StubUpdate(stub, loc[p].fields, now)]
               /\ Goto(p, "stub_open")
          ELSE \* no stub (return), or json.load raises and the except logs it
               /\ Goto(p, loc[p].after)
               /\ UNCHANGED loc
    /\ UNCHANGED <<files, now, calls, submitted, raced, overlap, history, stubHistory>>

\* save_json: open(path, "w") creates or truncates the file
StubOpen(p) ==
    /\ pc[p] = "stub_open"
    /\ stubs' = [stubs EXCEPT ![loc[p].id] = EmptyStub]
    /\ Goto(p, "stub_write")
    /\ UNCHANGED <<pending, processing, error, uploads, mtimeOrder, now, calls,
                   submitted, loc, raced, overlap, history, stubHistory>>

\* save_json: json.dump and the close of the file
StubWrite(p) ==
    /\ pc[p] = "stub_write"
    /\ \E doc \in WriteOutcomes(stubs[loc[p].id], loc[p].newStub) :
          /\ stubs' = [stubs EXCEPT ![loc[p].id] = doc]
          /\ terminal' = [terminal EXCEPT ![loc[p].id] =
                            @ \/ (doc.kind = "json" /\ doc.status \in TerminalStatuses)]
          /\ aiFirst' = [aiFirst EXCEPT ![loc[p].id] =
                           IF @ = NoAi /\ doc.kind = "json" THEN AiOf(doc) ELSE @]
    /\ Goto(p, loc[p].after)
    /\ UNCHANGED <<pending, processing, error, uploads, mtimeOrder, now, calls,
                   submitted, loc, raced, overlap, history>>

\* ---------------------------------------------------------------------
\* submit_case
\* ---------------------------------------------------------------------
\* the cases whose submit_case call has returned
Arrived == {e \in 1..submitted :
               ~\E q \in Procs : pc[q] # "idle" /\ loc[q].op = "submit" /\ loc[q].id = e}

\* the ids, the time stamp, and the image written to uploads
SubmitStart(p, size, pi) ==
    /\ Begin(p)
    /\ submitted < NumIds
    /\ submitted' = submitted + 1
    /\ uploads' = [uploads EXCEPT ![submitted + 1] = size]
    /\ loc' = [loc EXCEPT ![p] =
                 [IdleLoc EXCEPT !.op = "submit", !.id = submitted + 1,
                                 !.created_at = now,
                                 !.rec = NewRecord(submitted + 1, now, pi)]]
    /\ arrivedBefore' = arrivedBefore \cup {<<e, submitted + 1>> : e \in Arrived}
    /\ Goto(p, "s_rec_open")
    /\ UNCHANGED <<pending, processing, error, stubs, mtimeOrder, now, okCount, aborted,
                   purged, purgeReturned, revealed, quarantined, resultReturned,
                   stubHistory>>

\* save_json(pending_path(case_id), record): the open
SubmitOpenRecord(p) ==
    /\ pc[p] = "s_rec_open"
    /\ pending' = [pending EXCEPT ![loc[p].id] = EmptyRec]
    /\ mtimeOrder' = Append(mtimeOrder, loc[p].id)
    /\ Goto(p, "s_rec_write")
    /\ UNCHANGED <<processing, error, uploads, stubs, now, calls, submitted, loc,
                   raced, overlap, history, stubHistory>>

\* the file whose modification time is the latest
Touch(order, id) == Append(SelectSeq(order, LAMBDA x : x # id), id)

\* save_json(pending_path(case_id), record): json.dump and the close; then
\* the stub of the case is built
SubmitWriteRecord(p) ==
    /\ pc[p] = "s_rec_write"
    /\ LET id == loc[p].id IN
         /\ pending' = WriteThrough(pending, id, loc[p].rec)
         /\ processing' = WriteThrough(processing, id, loc[p].rec)
         /\ error' = WriteThrough(error, id, loc[p].rec)
         /\ mtimeOrder' = Touch(mtimeOrder, id)
         /\ loc' = [loc EXCEPT ![p].newStub = NewStub(id, loc[p].created_at),
                               ![p].after = "ret",
                               ![p].result = Result("redirect", 302, NullStr, id)]
    /\ Goto(p, "stub_open")
    /\ UNCHANGED <<uploads, stubs, now, calls, submitted, raced, overlap, history, stubHistory>>

\* ---------------------------------------------------------------------
\* result_page
\* ---------------------------------------------------------------------
\* the page of a case: error.html when there is no stub file, otherwise
\* result.html with the loaded stub as "case"; json.load raises on a file
\* that holds no document
ResultStart(p, case_id) ==
    /\ Begin(p)
    /\ LET stub == stubs[case_id]
           l == Seen([IdleLoc EXCEPT !.op = "result", !.id = case_id])
       IN loc' = [loc EXCEPT ![p] =
                    IF stub.kind = "nofile"
                    THEN [l EXCEPT !.result = Result("error.html", 200, "Case not found", case_id)]
                    ELSE IF stub.kind # "json"
                    THEN [l EXCEPT !.result = Result("exception", 500, "JSONDecodeError", case_id)]
                    ELSE [l EXCEPT !.result = Result("result.html", 200, NullStr, case_id),
                                   !.case = stub]]
    /\ Goto(p, "ret")
    /\ UNCHANGED <<files, now, submitted, history, stubHistory>>

\* ---------------------------------------------------------------------
\* claim_case
\* ---------------------------------------------------------------------
\* the record files that are in a directory
Listing(dir) == {i \in Ids : dir[i].kind # "nofile"}

\* sorted(..., key=os.path.getmtime) of the files in S
SortNewestFirst(order, S) ==
    LET q == SelectSeq(order, LAMBDA x : x \in S)
    IN [i \in 1..Len(q) |-> q[Len(q) + 1 - i]]

SortByMtime(order, S) == SelectSeq(order, LAMBDA x : x \in S)

\* glob.glob(os.path.join(DIRS["pending"], "*.json"))
ClaimAccepted(p, key) ==
    /\ Begin(p)
    /\ loc' = [loc EXCEPT ![p] =
                 [IdleLoc EXCEPT !.op = "claim", !.key = key,
                                 !.globbed = Listing(pending)]]
    /\ Goto(p, "c_sort")
    /\ UNCHANGED <<files, now, submitted, history, stubHistory>>

ClaimStart(p, key) ==
    IF verify_internal_key(key) # NoResult
    THEN Rejected(p, "claim", key)
    ELSE ClaimAccepted(p, key)

\* pending_files.sort(key=lambda p: os.path.getmtime(p)): getmtime raises
\* OSError for a file that has left pending since the listing, outside any try
ClaimSort(p) ==
    /\ pc[p] = "c_sort"
    /\ IF loc[p].globbed \subseteq Listing(pending)
       THEN /\ loc' = [loc EXCEPT ![p].pending_files =
                                      SortByMtime(mtimeOrder, loc[p].globbed)]
            /\ Goto(p, "c_rename")
       ELSE Leave(p, Result("exception", 500, "OSError in getmtime", 0))
    /\ UNCHANGED <<files, now, calls, submitted, raced, overlap, history, stubHistory>>

\* try: os.rename(...) except OSError: the claimer holds the case when the
\* rename raised nothing
ClaimLockedAlways(mv) == TRUE

ClaimLocked(mv) == mv.ok

\* one turn of `for _ in range(5)`: the head of the list is renamed from
\* pending to processing; a lost rename drops the head
ClaimRename(p) ==
    /\ pc[p] = "c_rename"
    /\ IF loc[p].tries >= ClaimBudget \/ loc[p].pending_files = <<>>
       THEN /\ Leave(p, Result("empty", 200, NullStr, 0))
            /\ UNCHANGED <<pending, processing>>
       ELSE LET case_id == Head(loc[p].pending_files)
                mv == os_rename(pending, processing, case_id)
            IN /\ pending' = mv.src
               /\ processing' = mv.dst
               /\ IF ClaimLocked(mv)
                  THEN /\ loc' = [loc EXCEPT ![p] = Seen([@ EXCEPT !.id = case_id])]
                       /\ Goto(p, "c_load")
                  ELSE /\ loc' = [loc EXCEPT
                                    ![p].pending_files = Tail(@),
                                    ![p].tries = @ + 1,
                                    ![p].skipped = @ \cup {case_id}]
                       /\ UNCHANGED pc
    /\ UNCHANGED <<error, uploads, stubs, mtimeOrder, now, calls, submitted, raced,
                   overlap, history, stubHistory>>

\* rec = load_json(dest_path): a 404 for a file that is gone and a
\* JSONDecodeError for an empty one both reach `except Exception`
ClaimLoad(p) ==
    /\ pc[p] = "c_load"
    /\ LET doc == processing[loc[p].id] IN
         IF doc.kind = "json"
         THEN /\ loc' = [loc EXCEPT ![p].rec = doc]
              /\ Goto(p, "c_img_exists")
         ELSE /\ Goto(p, "c_except")
              /\ UNCHANGED loc
    /\ UNCHANGED <<files, now, calls, submitted, raced, overlap, history, stubHistory>>

\* if not os.path.exists(img_path): the stub is marked and the record
\* quarantined
ClaimImgExists(p) ==
    /\ pc[p] = "c_img_exists"
    /\ IF uploads[loc[p].rec.image_filename] = NoBlob
       THEN /\ loc' = [loc EXCEPT
                         ![p].fields = Fields("error", "Image missing (quarantined)", "error_at"),
                         ![p].after = "c_quarantine",
                         ![p].result = Result("error", 200, "Image file missing", loc[p].id)]
            /\ Goto(p, "stub_load")
       ELSE /\ Goto(p, "c_img_read")
            /\ UNCHANGED loc
    /\ UNCHANGED <<files, now, calls, submitted, raced, overlap, history, stubHistory>>

\* os.path.getsize(img_path) and the read of the image: an image removed
\* since the exists() raises into `except Exception`
ClaimImgRead(p) ==
    /\ pc[p] = "c_img_read"
    /\ LET size == uploads[loc[p].rec.image_filename] IN
         IF size = NoBlob
         THEN /\ Goto(p, "c_except")
              /\ UNCHANGED loc
         ELSE IF size > MAX_CLAIM_IMAGE_BYTES
         THEN /\ loc' = [loc EXCEPT
                           ![p].fields = Fields("error", "Image too large (quarantined)", "error_at"),
                           ![p].after = "c_quarantine",
                           ![p].result = Result("error", 200, "Image too large", loc[p].id)]
              /\ Goto(p, "stub_load")
         ELSE /\ loc' = [loc EXCEPT
                           ![p].fields = Fields("processing", NullStr, "processing_at"),
                           ![p].after = "ret",
                           ![p].result = Result("ok", 200, NullStr, loc[p].id)]
              /\ Goto(p, "stub_load")
    /\ UNCHANGED <<files, now, calls, submitted, raced, overlap, history, stubHistory>>

\* os.rename(dest_path, error_path(case_id)) of the two quarantine
\* branches; a failure is logged
ClaimRequeue(p) ==
    /\ pc[p] = "c_quarantine"
    /\ LET mv == os_rename(processing, pending, loc[p].id) IN
         /\ processing' = mv.src
         /\ pending' = mv.dst
    /\ Goto(p, "ret")
    /\ UNCHANGED <<error, uploads, stubs, mtimeOrder, now, calls, submitted, loc,
                   raced, overlap, history, stubHistory>>

ClaimDiscard(p) ==
    /\ pc[p] = "c_quarantine"
    /\ processing' = [processing EXCEPT ![loc[p].id] = NoRec]
    /\ Goto(p, "ret")
    /\ UNCHANGED <<pending, error, uploads, stubs, mtimeOrder, now, calls, submitted, loc,
                   raced, overlap, history, stubHistory>>

ClaimQuarantine(p) ==
    /\ pc[p] = "c_quarantine"
    /\ LET mv == os_rename(processing, error, loc[p].id) IN
         /\ processing' = mv.src
         /\ error' = mv.dst
    /\ Goto(p, "ret")
    /\ UNCHANGED <<pending, uploads, stubs, mtimeOrder, now, calls, submitted, loc,
                   raced, overlap, history, stubHistory>>

\* except Exception: the record is quarantined, then the stub is marked
ClaimExcept(p) ==
    /\ pc[p] = "c_except"
    /\ LET mv == os_rename(processing, error, loc[p].id) IN
         /\ processing' = mv.src
         /\ error' = mv.dst
    /\ loc' = [loc EXCEPT
                 ![p].fields = Fields("error", "Read error (quarantined)", NullStr),
                 ![p].after = "ret",
                 ![p].result = Result("error", 200, "Internal claim read error", loc[p].id)]
    /\ Goto(p, "stub_load")
    /\ UNCHANGED <<pending, uploads, stubs, mtimeOrder, now, calls, submitted,
                   raced, overlap, history, stubHistory>>

\* ---------------------------------------------------------------------
\* confirm_case
\* ---------------------------------------------------------------------
\* not os.path.exists(json_path)
AlreadyDeletedNever(dir, id) == FALSE

AlreadyDeleted(dir, id) == dir[id].kind = "nofile"

\* if not os.path.exists(json_path): return ok
ConfirmAccepted(p, case_id, receipt, key) ==
    /\ Begin(p)
    /\ LET l == Seen([IdleLoc EXCEPT !.op = "confirm", !.key = key, !.id = case_id,
                                     !.receipt = receipt]) IN
         IF AlreadyDeleted(processing, case_id)
         THEN /\ loc' = [loc EXCEPT ![p] =
                           [l EXCEPT !.result =
                              Result("ok", 200, "Already deleted or not found", case_id)]]
              /\ Goto(p, "ret")
         ELSE /\ loc' = [loc EXCEPT ![p] = l]
              /\ Goto(p, "f_load")
    /\ UNCHANGED <<files, now, submitted, history, stubHistory>>

ConfirmStart(p, case_id, receipt, key) ==
    IF verify_internal_key(key) # NoResult
    THEN Rejected(p, "confirm", key)
    ELSE ConfirmAccepted(p, case_id, receipt, key)

\* load_json of a processing record and the receipt check, as confirm_case
\* and abort_case make it: the result that ends the call, or NoResult
LoadAndCheck(doc, receipt, case_id) ==
    IF doc.kind = "nofile" THEN Result("exception", 404, "Data not found", case_id)
    ELSE IF doc.kind # "json" THEN Result("exception", 500, "JSONDecodeError", case_id)
    ELSE IF doc.receipt # receipt THEN Result("exception", 400, "Receipt mismatch", case_id)
    ELSE NoResult

\* rec = load_json(json_path); if rec.get("receipt") != receipt: raise
ConfirmLoad(p) ==
    /\ pc[p] = "f_load"
    /\ LET doc == processing[loc[p].id]
           r == LoadAndCheck(doc, loc[p].receipt, loc[p].id)
       IN IF r # NoResult
          THEN Leave(p, r)
          ELSE /\ loc' = [loc EXCEPT ![p].rec = doc]
               /\ Goto(p, "f_rm_img")
    /\ UNCHANGED <<files, now, calls, submitted, raced, overlap, history, stubHistory>>

\* if os.path.exists(img_path): os.remove(img_path)
ConfirmRemoveImage(p) ==
    /\ pc[p] = "f_rm_img"
    /\ uploads' = [uploads EXCEPT ![loc[p].rec.image_filename] = NoBlob]
    /\ Goto(p, "f_rm_json")
    /\ UNCHANGED <<pending, processing, error, stubs, mtimeOrder, now, calls,
                   submitted, loc, raced, overlap, history, stubHistory>>

\* update_stub_status(case_id, status="data_purged", updated_at=...)
ConfirmFields == Fields("data_purged", NullStr, "updated_at")

\* os.remove(json_path), a failure is logged; then the stub is marked
ConfirmRemoveJson(p) ==
    /\ pc[p] = "f_rm_json"
    /\ LET id == loc[p].id IN
         /\ processing' = [processing EXCEPT ![id] = NoRec]
         /\ purged' = [purged EXCEPT ![id] = @ \/ processing[id].kind # "nofile"]
    /\ loc' = [loc EXCEPT
                 ![p].fields = ConfirmFields,
                 ![p].after = "ret",
                 ![p].result = Result("ok", 200, "Data purged", loc[p].id)]
    /\ Goto(p, "stub_load")
    /\ UNCHANGED <<pending, error, uploads, stubs, mtimeOrder, now, calls, submitted,
                   raced, overlap, okCount, aborted, purgeReturned, revealed,
                   quarantined, resultReturned, arrivedBefore, stubHistory>>

\* ---------------------------------------------------------------------
\* update_ai_result
\* ---------------------------------------------------------------------
\* the stub is loaded, the receipt checked against the stub's, and the
\* result fields set
UpdateAccepted(p, id, receipt, ai, key) ==
    /\ Begin(p)
    /\ LET l == Seen([IdleLoc EXCEPT !.op = "update", !.key = key, !.id = id,
                                     !.receipt = receipt, !.ai = ai])
           stub == stubs[id]
           r == IF stub.kind = "nofile" THEN Result("exception", 404, "Stub not found", id)
                ELSE IF stub.kind # "json" THEN Result("exception", 500, "JSONDecodeError", id)
                ELSE IF stub.receipt # receipt THEN Result("exception", 401, "Receipt mismatch", id)
                ELSE NoResult
       IN IF r # NoResult
          THEN /\ loc' = [loc EXCEPT ![p] = [l EXCEPT !.result = r]]
               /\ Goto(p, "ret")
          ELSE /\ loc' = [loc EXCEPT ![p] =
                            [l EXCEPT !.newStub = AiUpdate(stub, ai, now),
                                      !.after = "ret",
                                      !.result = Result("ok", 200, NullStr, id)]]
               /\ Goto(p, "stub_open")
    /\ UNCHANGED <<files, now, submitted, history, stubHistory>>

UpdateStart(p, id, receipt, ai, key) ==
    IF verify_internal_key(key) # NoResult
    THEN Rejected(p, "update", key)
    ELSE UpdateAccepted(p, id, receipt, ai, key)

\* ---------------------------------------------------------------------
\* abort_case
\* ---------------------------------------------------------------------
\* if not os.path.exists(proc_path): raise 404
AbortAccepted(p, case_id, receipt, key) ==
    /\ Begin(p)
    /\ LET l == Seen([IdleLoc EXCEPT !.op = "abort", !.key = key, !.id = case_id,
                                     !.receipt = receipt]) IN
         IF processing[case_id].kind = "nofile"
         THEN /\ loc' = [loc EXCEPT ![p] =
                           [l EXCEPT !.result =
                              Result("exception", 404, "Case not in processing", case_id)]]
              /\ Goto(p, "ret")
         ELSE /\ loc' = [loc EXCEPT ![p] = l]
              /\ Goto(p, "a_load")
    /\ UNCHANGED <<files, now, submitted, history, stubHistory>>

AbortStart(p, case_id, receipt, key) ==
    IF verify_internal_key(key) # NoResult
    THEN Rejected(p, "abort", key)
    ELSE AbortAccepted(p, case_id, receipt, key)

\* rec = load_json(proc_path); if rec.get("receipt") != receipt: raise
AbortLoad(p) ==
    /\ pc[p] = "a_load"
    /\ LET doc == processing[loc[p].id]
           r == LoadAndCheck(doc, loc[p].receipt, loc[p].id)
       IN IF r # NoResult
          THEN Leave(p, r)
          ELSE /\ loc' = [loc EXCEPT ![p].rec = doc]
               /\ Goto(p, "a_rename")
    /\ UNCHANGED <<files, now, calls, submitted, raced, overlap, history, stubHistory>>

\* update_stub_status(case_id, status="pending", note=..., updated_at=...)
AbortFieldsKeepingStatus ==
    Fields("processing", "Aborted by internal worker (retry scheduled)", "updated_at")

AbortFields ==
    Fields("pending", "Aborted by internal worker (retry scheduled)", "updated_at")

\* os.rename(proc_path, pending_path(case_id)); a failure is a 500
AbortRename(p) ==
    /\ pc[p] = "a_rename"
    /\ LET id == loc[p].id
           mv == os_rename(processing, pending, id)
       IN /\ processing' = mv.src
          /\ pending' = mv.dst
          /\ aborted' = [aborted EXCEPT ![id] = @ \/ mv.ok]
          /\ IF mv.ok
             THEN /\ loc' = [loc EXCEPT
                               ![p].fields = AbortFields,
                               ![p].after = "ret",
                               ![p].result = Result("ok", 200, "Case moved back to pending", id)]
                  /\ Goto(p, "stub_load")
             ELSE Leave(p, Result("exception", 500, "Failed to move file", id))
    /\ UNCHANGED <<error, uploads, stubs, mtimeOrder, now, calls, submitted, raced,
                   overlap, okCount, purged, purgeReturned, revealed,
                   quarantined, resultReturned, arrivedBefore, stubHistory>>

\* ---------------------------------------------------------------------
\* the response leaves the handler
\* ---------------------------------------------------------------------
Bump(n) == IF n < 2 THEN n + 1 ELSE 2

\* the responses of claim_case that carry the receipt: 'ok' (in data) and the
\* two quarantine reports; the report of a read error carries none
CarriesReceipt(r) ==
    \/ r.status = "ok"
    \/ r.status = "error" /\ r.message # "Internal claim read error"

Return(p) ==
    /\ pc[p] = "ret"
    /\ LET r == loc[p].result
           id == r.case_id
       IN /\ okCount' = IF loc[p].op = "claim" /\ r.status = "ok"
                         THEN [okCount EXCEPT ![id] = Bump(@)] ELSE okCount
          /\ purgeReturned' = IF loc[p].op = "confirm" /\ r.message = "Data purged"
                               THEN [purgeReturned EXCEPT ![id] = TRUE]
                               ELSE purgeReturned
          /\ revealed' = IF loc[p].op = "claim" /\ CarriesReceipt(r)
                          THEN [revealed EXCEPT ![id] = TRUE] ELSE revealed
          /\ resultReturned' = IF loc[p].op = "update" /\ r.status = "ok"
                                THEN [resultReturned EXCEPT ![id] = TRUE]
                                ELSE resultReturned
          /\ quarantined' = IF /\ loc[p].op = "claim"
                                /\ loc[p].id # 0
                                /\ loc[p].sawImage = NoBlob
                                /\ ~overlap
                             THEN [quarantined EXCEPT ![id] = TRUE] ELSE quarantined
    /\ pc' = [pc EXCEPT ![p] = "idle"]
    /\ loc' = [loc EXCEPT ![p] = IdleLoc]
    /\ overlap' = (overlap /\ \E q \in Procs \ {p} : pc[q] # "idle")
    /\ UNCHANGED <<files, now, calls, submitted, raced, aborted, purged,
                   arrivedBefore, stubHistory>>

\* the wall clock advances
Tick ==
    /\ now < MaxNow
    /\ ~Busy
    /\ now' = now + 1
    /\ UNCHANGED <<pending, processing, error, uploads, stubs, mtimeOrder,
                   submitted, calls, pc, loc, raced, overlap, history, stubHistory>>

\* an image leaves uploads between two requests without any handler's doing
\* (the case that the exists() check of claim_case is there for)
ImageLost(id) ==
    /\ ~Busy
    /\ uploads[id] # NoBlob
    /\ uploads' = [uploads EXCEPT ![id] = NoBlob]
    /\ UNCHANGED <<pending, processing, error, stubs, mtimeOrder, now, calls,
                   submitted, pc, loc, raced, overlap, history, stubHistory>>

\* the case ids that requests can name: those submit_case has generated
Known == 1..submitted

\* the receipts a request for `id` can carry: the receipt of the case once a
\* claim_case response has carried it, and receipts of other cases
Presentable(id) == {r \in Receipts : r = ReceiptOf(id) => revealed[id]}

Next ==
    \/ Tick
    \/ \E id \in Ids : ImageLost(id)
    \/ \E p \in Procs :
          \/ \E size \in ImageSizes, pi \in PersonalInputs : SubmitStart(p, size, pi)
          \/ SubmitOpenRecord(p)
          \/ SubmitWriteRecord(p)
          \/ \E id \in Arrived : ResultStart(p, id)
          \/ \E key \in Keys : ClaimStart(p, key)
          \/ ClaimSort(p)
          \/ ClaimRename(p)
          \/ ClaimLoad(p)
          \/ ClaimImgExists(p)
          \/ ClaimImgRead(p)
          \/ ClaimQuarantine(p)
          \/ ClaimExcept(p)
          \/ \E id \in Known : \E r \in Presentable(id), key \in Keys :
                ConfirmStart(p, id, r, key)
          \/ ConfirmLoad(p)
          \/ ConfirmRemoveImage(p)
          \/ ConfirmRemoveJson(p)
          \/ \E id \in Known : \E r \in Presentable(id), ai \in AiInputs, key \in Keys :
                UpdateStart(p, id, r, ai, key)
          \/ \E id \in Known : \E r \in Presentable(id), key \in Keys :
                AbortStart(p, id, r, key)
          \/ AbortLoad(p)
          \/ AbortRename(p)
          \/ StubLoad(p)
          \/ StubOpen(p)
          \/ StubWrite(p)
          \/ Return(p)

Spec == Init /\ [][Next]_vars

\* ---------------------------------------------------------------------
\* the properties
\* ---------------------------------------------------------------------
HasFile(dir, id) == dir[id].kind # "nofile"

Returning(p, op) == pc[p] = "ret" /\ loc[p].op = op

\* C1 (mutual exclusion of claim): as long as no abort_case call has moved
\* the record of a case back to pending, at most one claim_case call has
\* returned status 'ok' with that case, whatever the interleaving of the
\* claimers' listings, renames and reads.
C1_MutualExclusion ==
    \A id \in Ids : ~aborted[id] => okCount[id] <= 1

\* two claimers listed the case; one has returned it with 'ok', the other
\* lost the rename, skipped the case and is returning 'empty'
C1_Witness ==
    \E id \in Ids, p \in Procs :
        /\ okCount[id] = 1
        /\ ~aborted[id]
        /\ Returning(p, "claim")
        /\ id \in loc[p].globbed
        /\ id \in loc[p].skipped
        /\ loc[p].result.status = "empty"

\* C2 (partition exclusivity, I1): in every reachable state the record of a
\* case is in at most one of pending, processing and error.
Partitions(id) ==
    {d \in {"pending", "processing", "error"} :
        \/ d = "pending" /\ HasFile(pending, id)
        \/ d = "processing" /\ HasFile(processing, id)
        \/ d = "error" /\ HasFile(error, id)}

C2_PartitionExclusivity ==
    \A id \in Ids : Cardinality(Partitions(id)) <= 1

\* a record that was claimed, aborted, claimed again and quarantined
C2_Witness ==
    \E id \in Ids : aborted[id] /\ Partitions(id) = {"error"}

\* the receipt submit_case stored for the case a call names
StoredReceipt(p) == loc[p].receipt = ReceiptOf(loc[p].id)

\* C3 (purge completeness, P2): when a confirm_case call that carries the
\* stored receipt returns status 'ok', no record of the case is in pending or
\* processing and no image of the case is in uploads (stated for runs in
\* which no two calls have overlapped).
C3_PurgeCompleteness ==
    \A p \in Procs :
        ( /\ Returning(p, "confirm")
          /\ ~raced
          /\ StoredReceipt(p)
          /\ loc[p].result.status = "ok" )
        => /\ ~HasFile(pending, loc[p].id)
           /\ ~HasFile(processing, loc[p].id)
           /\ uploads[loc[p].id] = NoBlob

\* C4 (receipt gating, P3): a confirm_case, abort_case or update_ai_result
\* call whose receipt is not the stored one never returns a success result
\* (stated for runs in which no two calls have overlapped), and no step of it
\* changes the partitions, the blobs or the stubs.
Reconciles(l) == l.op \in {"confirm", "abort", "update"} /\ l.receipt # ReceiptOf(l.id)

C4_Rejected ==
    \A p \in Procs :
        (pc[p] = "ret" /\ ~raced /\ Reconciles(loc[p])) => loc[p].result.status # "ok"

C4_NoEffect ==
    \A p \in Procs :
        (pc'[p] # pc[p] /\ (Reconciles(loc[p]) \/ Reconciles(loc'[p])))
        => UNCHANGED files

C4_ReceiptGating == []C4_Rejected /\ [][C4_NoEffect]_vars

\* C5 (purge is final, I4): once a confirm_case call for a case has returned
\* 'Data purged', no record of the case is in pending, processing or error
\* and no image of it is in uploads.
C5_PurgeFinal ==
    \A id \in Ids :
        purgeReturned[id] => (Partitions(id) = {} /\ uploads[id] = NoBlob)

\* C6 (result fields written once, I5): the result fields of a stub are null
\* until its first result is written, and from then on they keep the values
\* first written (stated for runs in which no two calls have overlapped).
C6_WrittenOnce ==
    \A id \in Ids :
        (~raced /\ stubs[id].kind = "json") => AiOf(stubs[id]) = aiFirst[id]

C8_AbortReleases ==
    \A p \in Procs :
        ( /\ Returning(p, "abort")
          /\ ~raced
          /\ StoredReceipt(p)
          /\ loc[p].sawRec.kind # "nofile" )
        => /\ loc[p].result.status = "ok"
           /\ pending[loc[p].id] = loc[p].sawRec
           /\ Partitions(loc[p].id) = {"pending"}
           /\ uploads[loc[p].id] = loc[p].sawImage
           /\ stubs[loc[p].id].kind = "json"
           /\ stubs[loc[p].id].status = "pending"

\* a case was claimed and aborted, and a second claim_case call is returning
\* it with 'ok'
C8_Witness ==
    \E id \in Ids, p \in Procs :
        /\ ~raced
        /\ aborted[id]
        /\ okCount[id] = 1
        /\ Returning(p, "claim")
        /\ loc[p].result = Result("ok", 200, NullStr, id)
        /\ loc[p].rec = NewRecord(id, loc[p].rec.created_at, CHOOSE pi \in PersonalInputs : TRUE)

\* C9 (confirm is idempotent): once a confirm_case call has removed the
\* processing record of a case, a further confirm_case call with the stored
\* receipt returns 'ok' at once and changes no partition, blob or stub.
C9_Step ==
    \A p \in Procs :
        ( /\ pc[p] = "idle"
          /\ pc'[p] # "idle"
          /\ loc'[p].op = "confirm"
          /\ loc'[p].receipt = ReceiptOf(loc'[p].id)
          /\ purged[loc'[p].id] )
        => /\ pc'[p] = "ret"
           /\ loc'[p].result.status = "ok"
           /\ UNCHANGED files

C9_ConfirmIdempotent == [][C9_Step]_vars

\* a further confirm_case call on a purged case is returning 'ok', the stub
\* being what the call found
C9_Witness ==
    \E p \in Procs :
        /\ Returning(p, "confirm")
        /\ StoredReceipt(p)
        /\ purged[loc[p].id]
        /\ purgeReturned[loc[p].id]
        /\ loc[p].result.status = "ok"
        /\ stubs[loc[p].id] = loc[p].sawStub
        /\ stubs[loc[p].id].status = "data_purged"

\* C10 (terminal stub statuses): once the stub of a case has held the status
\* data_purged, error or done, its status is never again pending or
\* processing (stated for runs in which no two calls have overlapped).
C10_Terminal ==
    \A id \in Ids :
        (~raced /\ terminal[id] /\ stubs[id].kind = "json")
        => stubs[id].status \notin {"pending", "processing"}

\* C11 (confirm and result-update commute): in a run with no overlapping
\* calls, when the second of a confirm_case and an update_ai_result call on a
\* claimed case returns (both with the stored receipt), it has succeeded, the
\* record and the image are gone, the result fields are set, and the stub
\* status is the one that the two calls leave when made in the other order.
StatusOfUpdateThenConfirm(stub, ai) ==
    StubUpdate(AiUpdate(stub, ai, now), ConfirmFields, now).status

StatusOfConfirmThenUpdate(stub, ai) ==
    AiUpdate(StubUpdate(stub, ConfirmFields, now), ai, now).status

C11_Commute ==
    \A p \in Procs :
        LET id == loc[p].id IN
        /\ ( /\ Returning(p, "update")
             /\ ~raced
             /\ StoredReceipt(p)
             /\ purgeReturned[id]
             /\ loc[p].sawStub.kind = "json"
             /\ loc[p].sawStub.status = "data_purged" )
           => /\ loc[p].result.status = "ok"
              /\ Partitions(id) = {}
              /\ uploads[id] = NoBlob
              /\ AiOf(stubs[id]) = loc[p].ai
              /\ stubs[id].status = StatusOfUpdateThenConfirm(loc[p].sawStub, loc[p].ai)
        /\ ( /\ Returning(p, "confirm")
             /\ ~raced
             /\ StoredReceipt(p)
             /\ loc[p].result.message = "Data purged"
             /\ loc[p].sawStub.kind = "json"
             /\ loc[p].sawStub.status = "done" )
           => /\ Partitions(id) = {}
              /\ uploads[id] = NoBlob
              /\ AiOf(stubs[id]) = AiOf(loc[p].sawStub)
              /\ stubs[id].status = StatusOfConfirmThenUpdate(loc[p].sawStub, AiOf(loc[p].sawStub))

\* C12 (lost claim races never surface): under every interleaving, a
\* claim_case call returns one of the documented results 'ok', 'empty' and
\* 'error'; it never ends in an unhandled exception.
C12_ClaimAbsorbsRaces ==
    \A p \in Procs :
        Returning(p, "claim") => loc[p].result.status \in {"ok", "empty", "error"}

\* C13 (shared-secret gate): a claim_case, confirm_case, abort_case or
\* update_ai_result call whose X-API-KEY header is absent or is not the
\* configured key is rejected as Unauthorized (401), and no step of it changes
\* the partitions, the blobs or the stubs.
InternalOps == {"claim", "confirm", "abort", "update"}

Unkeyed(l) == l.op \in InternalOps /\ l.key # INTERNAL_API_KEY

C13_Unauthorized ==
    \A p \in Procs :
        Unkeyed(loc[p])
        => /\ pc[p] = "ret"
           /\ loc[p].result.status = "exception"
           /\ loc[p].result.http = 401

C13_NoEffect ==
    \A p \in Procs :
        (pc'[p] # pc[p] /\ (Unkeyed(loc[p]) \/ Unkeyed(loc'[p])))
        => UNCHANGED files

C13_SharedSecretGate == []C13_Unauthorized /\ [][C13_NoEffect]_vars

\* C14 (privacy of the public view, P4): the document that result_page hands
\* to the template as "case" carries no receipt, name, phone or line_id.
PersonalKeys == {"name", "phone", "line_id"}

C14_PublicViewPrivate ==
    \A p \in Procs :
        Returning(p, "result")
        => /\ loc[p].case.receipt \notin Receipts
           /\ PersonalKeys \cap DOMAIN loc[p].case = {}

\* C15 (weak FIFO): whenever a claim_case call holds a case c, every case e
\* of its listing whose submission was over before that of c began is one
\* the call lost to another claimer; so a call that lost no rename holds the
\* earliest-submitted case of its listing.
C15_WeakFIFO ==
    \A p \in Procs :
        (loc[p].op = "claim" /\ loc[p].id # 0)
        => \A e \in loc[p].globbed :
              <<e, loc[p].id>> \in arrivedBefore => e \in loc[p].skipped

\* cases 1 and 2 were submitted one after the other, and a claim_case call
\* that listed both and lost no rename is returning case 1
C15_Witness ==
    \E p \in Procs :
        /\ Returning(p, "claim")
        /\ loc[p].globbed = {1, 2}
        /\ <<1, 2>> \in arrivedBefore
        /\ loc[p].skipped = {}
        /\ loc[p].result = Result("ok", 200, NullStr, 1)

\* C16 (no partially written document is read): whenever a handler reads a
\* record (claim_case, confirm_case, abort_case) or a stub (update_stub_status,
\* update_ai_result, result_page), the file holds a complete document: it is
\* not a file that a save_json has opened and not yet written, nor the
\* mixture of two writers.
Partial(doc) == doc.kind \in {"empty", "corrupt"}

ReadsRecord(p) ==
    /\ pc[p] \in {"c_load", "f_load", "a_load"}
    /\ pc'[p] # pc[p]

ReadsStub(p) ==
    \/ pc[p] = "stub_load" /\ pc'[p] # pc[p]
    \/ /\ pc[p] = "idle"
       /\ loc'[p].op \in {"update", "result"}
       /\ loc'[p].result.http \notin {401, 422}

C16_Step ==
    \A p \in Procs :
        /\ ReadsRecord(p) => ~Partial(processing[loc[p].id])
        /\ ReadsStub(p) => ~Partial(stubs[loc'[p].id])

C16_NoPartialRead == [][C16_Step]_vars

\* C17 (claim never leaves a failed case locked): when a claim_case call
\* returns status 'error', the record of the case it reports is in error and
\* in neither pending nor processing, and the stub of the case has status
\* 'error'; and when a claim_case call returns with the record it locked
\* still in processing, it returns 'ok'.
C17_FailedClaimQuarantined ==
    \A p \in Procs :
        Returning(p, "claim")
        => /\ loc[p].result.status = "error"
              => /\ Partitions(loc[p].result.case_id) = {"error"}
                 /\ stubs[loc[p].result.case_id].kind = "json"
                 /\ stubs[loc[p].result.case_id].status = "error"
           /\ (loc[p].id # 0 /\ HasFile(processing, loc[p].id))
              => loc[p].result.status = "ok"

\* C18 (stub status mirrors the partition): in every state in which no call
\* is in flight, for every case whose stub is there with a status other than
\* 'done': the record is in pending iff the status is 'pending', in processing
\* iff it is 'processing', in error iff it is 'error', and in no partition iff
\* it is 'data_purged'.
Mirrors(id) ==
    /\ HasFile(pending, id) <=> stubs[id].status = "pending"
    /\ HasFile(processing, id) <=> stubs[id].status = "processing"
    /\ HasFile(error, id) <=> stubs[id].status = "error"
    /\ Partitions(id) = {} <=> stubs[id].status = "data_purged"

C18_StubMirrorsPartition ==
    ~Busy => \A id \in Known :
                (stubs[id].kind = "json" /\ stubs[id].status # "done") => Mirrors(id)

\* C19 (a recorded result is never lost): once an update_ai_result call for a
\* case has returned 'ok', the stub of the case, whenever it holds a document,
\* holds the result fields of an update_ai_result call.
C19_ResultKept ==
    \A id \in Ids :
        (resultReturned[id] /\ stubs[id].kind = "json")
        => AiOf(stubs[id]) \in AiInputs

\* C20 (only confirm deletes personal data): no step of a claim_case,
\* abort_case or update_ai_result call takes a record out of the union of
\* pending, processing and error or an image out of uploads; a step of an
\* update_ai_result call changes no partition and no stub but that of its id.
Acting(p, ops) ==
    /\ pc'[p] # pc[p] \/ loc'[p] # loc[p]
    /\ loc[p].op \in ops \/ loc'[p].op \in ops

C20_Step ==
    \A p \in Procs :
        /\ Acting(p, {"claim", "abort", "update"})
           => /\ \A id \in Ids : Partitions(id) # {} => Partitions(id)' # {}
              /\ \A id \in Ids : uploads[id] # NoBlob => uploads'[id] # NoBlob
        /\ Acting(p, {"update"})
           => /\ UNCHANGED <<pending, processing, error, uploads>>
              /\ \A id \in Ids : stubs'[id] # stubs[id] => id = loc[p].id

C20_OnlyConfirmDeletes == [][C20_Step]_vars

\* a case too large to hand over has been quarantined by claim_case, and an
\* update_ai_result call for it is returning 'ok': record and image are there
C20_Witness ==
    \E p \in Procs :
        /\ Returning(p, "update")
        /\ loc[p].result.status = "ok"
        /\ Partitions(loc[p].id) = {"error"}
        /\ uploads[loc[p].id] > MAX_CLAIM_IMAGE_BYTES
        /\ AiOf(stubs[loc[p].id]) = loc[p].ai

====
